---------------------------- MODULE Spec2Model ----------------------------
(***************************************************************************)
(* Model of the 1BRC aggregation engine (src/1brc.go, src/boxer.go):       *)
(* the numeric parser parseTemp, the range partitioner and the worker /    *)
(* closer / merge goroutines of main, and the chunk scanner processChunk.  *)
(*                                                                         *)
(* Bytes are ASCII codes.  float64 values are modelled exactly: a value is *)
(* a sign and a magnitude held as a fixed-point natural number in limbs,   *)
(* and every arithmetic operation rounds its exact result to 53            *)
(* significant bits, ties to even, as IEEE-754 binary64 does.              *)
(***************************************************************************)
EXTENDS Integers, Sequences, FiniteSets, TLC

(***************************************************************************)
(* float64                                                                 *)
(*                                                                         *)
(* A magnitude is a sequence of NumLimbs limbs, least significant first,   *)
(* each in 0..Base-1; it stands for  SUM mag[i] * Base^(i-1) * 2^(-Grid).  *)
(* The last limb holds the integer part.  All values the program computes  *)
(* on the modelled inputs lie on this grid, so no precision is lost by it. *)
(***************************************************************************)
MantBits == 53

LimbBits == 24

NumLimbs == 6

Base == 2^LimbBits

Grid == LimbBits * (NumLimbs - 1)

Limbs == 1..NumLimbs

MagZero == [i \in Limbs |-> 0]

MaxOf(S) == CHOOSE x \in S : \A y \in S : y <= x

MinOf(S) == CHOOSE x \in S : \A y \in S : x <= y

\* -1, 0, 1 as a < b, a = b, a > b
MagCmp(a, b) ==
    LET D == {i \in Limbs : a[i] # b[i]}
    IN  IF D = {} THEN 0
        ELSE IF a[MaxOf(D)] < b[MaxOf(D)] THEN -1 ELSE 1

MagAdd(a, b) ==
    LET c[i \in 1..NumLimbs] ==
            IF i = 1 THEN 0 ELSE (a[i-1] + b[i-1] + c[i-1]) \div Base
    IN  [i \in Limbs |-> (a[i] + b[i] + c[i]) % Base]

\* a - b, for a >= b
MagSub(a, b) ==
    LET w[i \in 1..NumLimbs] ==
            IF i = 1 THEN 0
            ELSE IF a[i-1] - b[i-1] - w[i-1] < 0 THEN 1 ELSE 0
    IN  [i \in Limbs |-> (a[i] - b[i] - w[i]) % Base]

\* a * k for a small natural k
MagMulSmall(a, k) ==
    LET c[i \in 1..NumLimbs] ==
            IF i = 1 THEN 0 ELSE (a[i-1] * k + c[i-1]) \div Base
    IN  [i \in Limbs |-> (a[i] * k + c[i]) % Base]

\* the remainder carried into limb i when a is divided by a small n, top limb first
MagDivRem(a, n) ==
    LET r[i \in 1..NumLimbs+1] ==
            IF i = NumLimbs + 1 THEN 0 ELSE (r[i+1] * Base + a[i]) % n
    IN  r

MagDivSmall(a, n) ==
    LET r == MagDivRem(a, n)
    IN  [i \in Limbs |-> (r[i+1] * Base + a[i]) \div n]

\* number of significant bits of a small natural
BitLenSmall(x) == IF x = 0 THEN 0 ELSE MinOf({n \in 1..LimbBits : x < 2^n})

BitLen(a) ==
    LET D == {i \in Limbs : a[i] # 0}
    IN  IF D = {} THEN 0
        ELSE (MaxOf(D) - 1) * LimbBits + BitLenSmall(a[MaxOf(D)])

\* bit i (bit 0 the least significant) of a
Bit(a, i) == (a[(i \div LimbBits) + 1] \div 2^(i % LimbBits)) % 2

\* whether any bit below bit r of a is set
LowNonZero(a, r) ==
    \E i \in Limbs :
        \/ i - 1 < r \div LimbBits /\ a[i] # 0
        \/ i - 1 = r \div LimbBits /\ a[i] % 2^(r % LimbBits) # 0

ClearLow(a, r) ==
    [i \in Limbs |->
        IF i - 1 < r \div LimbBits THEN 0
        ELSE IF i - 1 = r \div LimbBits
             THEN a[i] - (a[i] % 2^(r % LimbBits))
             ELSE a[i]]

Pow2Mag(r) == [i \in Limbs |-> IF i - 1 = r \div LimbBits THEN 2^(r % LimbBits) ELSE 0]

\* The exact magnitude a (plus, when sticky, a nonzero amount below the grid)
\* rounded to MantBits significant bits, round-half-to-even.
RoundMag(a, sticky) ==
    LET r == BitLen(a) - MantBits
    IN  IF r <= 0 THEN a
        ELSE LET guard == Bit(a, r - 1) = 1
                 rest  == sticky \/ LowNonZero(a, r - 1)
                 odd   == Bit(a, r) = 1
                 t     == ClearLow(a, r)
             IN  IF guard /\ (rest \/ odd) THEN MagAdd(t, Pow2Mag(r)) ELSE t

F64(neg, mag) == [neg |-> neg, mag |-> mag]

\* float64(n) for an integer 0 <= n < Base
F64FromInt(n) == F64(FALSE, [i \in Limbs |-> IF i = NumLimbs THEN n ELSE 0])

F64Zero == F64FromInt(0)

F64IsZero(x) == x.mag = MagZero

\* x + y
F64Add(x, y) ==
    IF x.neg = y.neg
    THEN F64(x.neg, RoundMag(MagAdd(x.mag, y.mag), FALSE))
    ELSE LET c == MagCmp(x.mag, y.mag)
         IN  IF c = 0 THEN F64Zero
             ELSE IF c > 0 THEN F64(x.neg, RoundMag(MagSub(x.mag, y.mag), FALSE))
             ELSE F64(y.neg, RoundMag(MagSub(y.mag, x.mag), FALSE))

\* -x
F64Neg(x) == F64(~x.neg, x.mag)

\* x * k for float64(k), k a small natural
F64MulSmall(x, k) == F64(x.neg, RoundMag(MagMulSmall(x.mag, k), FALSE))

\* x / float64(n), n a small positive natural
F64DivSmall(x, n) ==
    F64(x.neg, RoundMag(MagDivSmall(x.mag, n), MagDivRem(x.mag, n)[1] # 0))

\* x < y  (-0 and +0 compare equal)
F64Lt(x, y) ==
    IF F64IsZero(x) /\ F64IsZero(y) THEN FALSE
    ELSE IF x.neg # y.neg THEN x.neg
    ELSE IF x.neg THEN MagCmp(x.mag, y.mag) > 0
    ELSE MagCmp(x.mag, y.mag) < 0

\* x == y as Go compares float64
F64Eq(x, y) == ~F64Lt(x, y) /\ ~F64Lt(y, x)


\* The integer nearest to |x| * 10^k (ties to even): the digits that formatting
\* x with k decimals ("%.1f" for k = 1) prints, without the point.
RECURSIVE MagMulPow10(_, _)
MagMulPow10(a, k) == IF k = 0 THEN a ELSE MagMulPow10(MagMulSmall(a, 10), k - 1)

FormatFixed(x, k) ==
    LET m     == MagMulPow10(x.mag, k)
        guard == Bit(m, Grid - 1) = 1
        rest  == LowNonZero(m, Grid - 1)
        odd   == m[NumLimbs] % 2 = 1
    IN  m[NumLimbs] + (IF guard /\ (rest \/ odd) THEN 1 ELSE 0)

(***************************************************************************)
(* Bytes                                                                   *)
(***************************************************************************)
Minus == 45

Dot == 46

Zero == 48

Semicolon == 59

Newline == 10

LetterA == 97

Digits == Zero..(Zero + 9)

\* c - '0' on bytes (uint8 arithmetic)
ByteSub(c, d) == (c - d) % 256

\* s[lo:hi] of Go, positions counted from 0
Slice(s, lo, hi) == SubSeq(s, lo + 1, hi)

\* the decimal digits of a natural number, most significant first ("0" for 0)
RECURSIVE DecDigits(_)
DecDigits(n) == IF n < 10 THEN <<Zero + n>> ELSE Append(DecDigits(n \div 10), Zero + (n % 10))

\* the text fmt prints for "%.1f" of x: sign, integer digits, point, one digit
formatTenths(x) ==
    LET n == FormatFixed(x, 1)
    IN  (IF x.neg THEN <<Minus>> ELSE <<>>) \o DecDigits(n \div 10) \o <<Dot, Zero + (n % 10)>>

(***************************************************************************)
(* parseTemp                                                               *)
(***************************************************************************)
VARIABLES s, ppc, neg, val, decimal, decimalPos, pidx, pret

parseVars == <<s, ppc, neg, val, decimal, decimalPos, pidx, pret>>

\* a variant of the loop body that adds a fractional digit without dividing it by 10
parseTempStepWholeDigit(st, c) ==
    IF c = Dot
    THEN [st EXCEPT !.decimal = TRUE]
    ELSE IF st.decimal
         THEN [st EXCEPT !.val = F64Add(st.val, F64FromInt(ByteSub(c, Zero)))]
         ELSE [st EXCEPT
                 !.val = F64Add(F64MulSmall(st.val, 10), F64FromInt(ByteSub(c, Zero)))]

\* one iteration of "for _, c := range s"
parseTempStep(st, c) ==
    IF c = Dot
    THEN [st EXCEPT !.decimal = TRUE]
    ELSE IF st.decimal
         THEN [st EXCEPT
                 !.val = F64Add(st.val, F64DivSmall(F64FromInt(ByteSub(c, Zero)), 10)),
                 !.decimalPos = F64MulSmall(st.decimalPos, 10)]
         ELSE [st EXCEPT
                 !.val = F64Add(F64MulSmall(st.val, 10), F64FromInt(ByteSub(c, Zero)))]

parseTempStart == [val |-> F64Zero, decimal |-> FALSE, decimalPos |-> F64FromInt(1)]

RECURSIVE parseTempLoop(_, _, _)
parseTempLoop(st, t, i) ==
    IF i > Len(t) THEN st ELSE parseTempLoop(parseTempStep(st, t[i]), t, i + 1)

\* parseTemp(t): [panic |-> TRUE] when t[0] is read of an empty slice,
\* else the float64 returned
parseTemp(t) ==
    IF Len(t) = 0 THEN [panic |-> TRUE, val |-> F64Zero]
    ELSE LET isneg == t[1] = Minus
             body  == IF isneg THEN Tail(t) ELSE t
             st    == parseTempLoop(parseTempStart, body, 1)
         IN  [panic |-> FALSE, val |-> IF isneg THEN F64Neg(st.val) ELSE st.val]

\* The same function, one statement at a time.
MaxDigits == 3

DigitSeqs(n) == UNION {[1..k -> Digits] : k \in 1..n}

\* [-] digits [ . digits ] with at most n digits in all
WellFormedTokens(n) ==
    UNION {{sg \o d \o f :
                sg \in {<<>>, <<Minus>>},
                d \in [1..k -> Digits],
                f \in {<<>>} \cup {<<Dot>> \o g : g \in DigitSeqs(n - k)}} : k \in 1..n}

(***************************************************************************)
(* Result tables (map[string]*Result): functions from keys to Results      *)
(***************************************************************************)
EmptyTable == [k \in {} |-> 0]

Result(mn, mx, sm, cnt) == [min |-> mn, max |-> mx, sum |-> sm, count |-> cnt]

\* the scanner's fold of one observation into a Local Table
foldTemp(results, stationName, temp) ==
    IF stationName \in DOMAIN results
    THEN LET r == results[stationName]
         IN  [results EXCEPT ![stationName] =
                 Result(IF F64Lt(temp, r.min) THEN temp ELSE r.min,
                        IF F64Lt(r.max, temp) THEN temp ELSE r.max,
                        F64Add(r.sum, temp),
                        r.count + 1)]
    ELSE [k \in DOMAIN results \cup {stationName} |->
             IF k = stationName THEN Result(temp, temp, temp, 1) ELSE results[k]]

\* a variant of the combine that forgets to add the counts
combineResultKeepCount(final, result) ==
    Result(IF F64Lt(result.min, final.min) THEN result.min ELSE final.min,
           IF F64Lt(final.max, result.max) THEN result.max ELSE final.max,
           F64Add(final.sum, result.sum),
           final.count)

\* the merger's combine of two Results of one key
combineResult(final, result) ==
    Result(IF F64Lt(result.min, final.min) THEN result.min ELSE final.min,
           IF F64Lt(final.max, result.max) THEN result.max ELSE final.max,
           F64Add(final.sum, result.sum),
           final.count + result.count)

\* one pass of the merge loop body over a received Local Table
mergeTable(final, results) ==
    [k \in DOMAIN final \cup DOMAIN results |->
        IF k \in DOMAIN final /\ k \in DOMAIN results
        THEN combineResult(final[k], results[k])
        ELSE IF k \in DOMAIN final THEN final[k] ELSE results[k]]

(***************************************************************************)
(* processChunk, after the read: boundary snapping and the line scan       *)
(***************************************************************************)
\* the first position >= from (counted from 0) holding byte c, Len(b) if none
FirstAt(b, from, c) ==
    LET P == {i \in from..(Len(b) - 1) : b[i + 1] = c}
    IN  IF P = {} THEN Len(b) ELSE MinOf(P)

\* a variant that skips through the first newline in the first chunk too
snapStartEveryChunk(b, offset) == FirstAt(b, 0, Newline) + 1

snapStart(b, offset) == IF offset # 0 THEN FirstAt(b, 0, Newline) + 1 ELSE 0

snapEnd(b) ==
    LET P == {i \in 1..Len(b) : b[i] = Newline}
    IN  IF P = {} THEN 0 ELSE MaxOf(P)

\* The scan loop from position pos of the snapped region b.  recs lists the
\* positions in b where a folded record starts.  A panic is an index out of
\* range at buf[semicolon] (fault "index") or at s[0] in parseTemp (fault
\* "token").
RECURSIVE scanLines(_, _, _, _)
scanLines(b, pos, results, recs) ==
    IF pos >= Len(b)
    THEN [panic |-> FALSE, fault |-> "none", results |-> results, recs |-> recs]
    ELSE LET semicolon == FirstAt(b, pos, Semicolon)
             tempStart == semicolon + 1
             tempEnd   == FirstAt(b, tempStart, Newline)
             temp      == parseTemp(Slice(b, tempStart, tempEnd))
         IN  IF semicolon >= Len(b)
             THEN [panic |-> TRUE, fault |-> "index", results |-> results, recs |-> recs]
             ELSE IF temp.panic
             THEN [panic |-> TRUE, fault |-> "token", results |-> results, recs |-> recs]
             ELSE scanLines(b, tempEnd + 1,
                            foldTemp(results, Slice(b, pos, semicolon), temp.val),
                            Append(recs, pos))

\* what processChunk does with a full buffer b read for a chunk at offset:
\* panic (buf[start:end] with start > end is fault "slice"), or the Local
\* Table; recs are the positions in b of the records folded
processChunk(b, offset) ==
    LET start == snapStart(b, offset)
        end   == snapEnd(b)
    IN  IF start > end
        THEN [panic |-> TRUE, fault |-> "slice", results |-> EmptyTable, recs |-> <<>>]
        ELSE LET r == scanLines(Slice(b, start, end), 0, EmptyTable, <<>>)
             IN  [panic |-> r.panic, fault |-> r.fault, results |-> r.results,
                  recs |-> [i \in 1..Len(r.recs) |-> start + r.recs[i]]]

(***************************************************************************)
(* Range partitioner (main)                                                *)
(***************************************************************************)
\* a variant that gives every chunk the nominal size, the last one too
RECURSIVE layoutChunksUntruncated(_, _, _)
layoutChunksUntruncated(offset, fileSize, chunkSize) ==
    IF offset < fileSize
    THEN <<[offset |-> offset, size |-> chunkSize]>>
             \o layoutChunksUntruncated(offset + chunkSize, fileSize, chunkSize)
    ELSE <<>>

RECURSIVE layoutChunks(_, _, _)
layoutChunks(offset, fileSize, chunkSize) ==
    IF offset < fileSize
    THEN LET size == IF offset + chunkSize > fileSize THEN fileSize - offset
                     ELSE chunkSize
         IN  <<[offset |-> offset, size |-> size]>>
                 \o layoutChunks(offset + chunkSize, fileSize, chunkSize)
    ELSE <<>>

nominalChunkSize(fileSize, cpus, floor) ==
    IF fileSize \div cpus < floor THEN floor ELSE fileSize \div cpus

partition(fileSize, cpus, floor) ==
    layoutChunks(0, fileSize, nominalChunkSize(fileSize, cpus, floor))

(***************************************************************************)
(* Report builder (main)                                                   *)
(***************************************************************************)
\* a < b on Go strings (bytewise)
LexLt(a, b) ==
    \E i \in 1..(Len(a) + 1) :
        /\ \A j \in 1..(i - 1) : j <= Len(b) /\ a[j] = b[j]
        /\ \/ i = Len(a) + 1 /\ Len(b) > Len(a)
           \/ i <= Len(a) /\ i <= Len(b) /\ a[i] < b[i]

Station(name, r) ==
    [Name |-> name, Min |-> r.min, Max |-> r.max,
     Mean |-> F64DivSmall(r.sum, r.count)]

RECURSIVE sortedNames(_)
sortedNames(K) ==
    IF K = {} THEN <<>>
    ELSE LET k == CHOOSE x \in K : \A y \in K \ {x} : LexLt(x, y)
         IN  <<k>> \o sortedNames(K \ {k})

buildStations(final) ==
    LET names == sortedNames(DOMAIN final)
    IN  [i \in 1..Len(names) |-> Station(names[i], final[names[i]])]


(***************************************************************************)
(* main: partitioner, worker goroutines, closer goroutine, merge loop      *)
(***************************************************************************)
VARIABLES
    file,          \* the bytes of the input file (read-only)
    mpc,           \* where main is
    chunkSize,     \* main's chunkSize
    chunks,        \* main's chunks
    fpos,          \* the offset of the shared *os.File
    wpc,           \* where each worker goroutine is, one per chunk
    wchunk,        \* the chunk each worker goroutine was started with (its parameter c)
    wbuf,          \* the bytes io.ReadFull has put into each worker's buf
    wresults,      \* the Local Table each processChunk returned
    wrecs,         \* (history) positions in buf of the records each worker folded
    werr,          \* (history) whether each worker's ReadFull returned an error
    wg,            \* the WaitGroup counter
    resultsChan,   \* the buffered channel, oldest first
    closed,        \* whether resultsChan is closed
    cpc,           \* where the closer goroutine is
    finalResults,  \* main's Global Table
    merged,        \* (history) the workers whose table main has merged, in order
    stations,      \* the report rows
    panicked       \* the process was ended by an unrecovered panic

pipeVars == <<file, mpc, chunkSize, chunks, fpos, wpc, wchunk, wbuf, wresults, wrecs, werr,
              wg, resultsChan, closed, cpc, finalResults, merged, stations, panicked>>

vars == <<parseVars, pipeVars>>

Workers == 1..Len(chunks)

NoChunk == [offset |-> 0, size |-> 0]

\* Input files: newline-terminated key;value records
Records ==
    { <<LetterA, Semicolon, Zero + 1, Dot, Zero + 5, Newline>>,        \* a;1.5
      <<LetterA + 1, Semicolon, Minus, Zero + 2, Newline>>,            \* b;-2
      <<LetterA, Semicolon, Zero + 3, Newline>> }                      \* a;3

MaxFileSize == 14

MaxCPUs == 3

MaxFloor == 7

RECURSIVE GrowFiles(_, _)
GrowFiles(S, n) ==
    LET T == S \cup {f \o r : f \in S, r \in {x \in Records : TRUE}}
        U == {f \in T : Len(f) <= n}
    IN  IF U = S THEN S ELSE GrowFiles(U, n)

\* every sequence of Records of at most n bytes
Files(n) == GrowFiles({<<>>}, n)

LongestRecord == MaxOf({Len(r) : r \in Records})

\* The minimum chunk size (1 MiB in the program) is scaled down with the files:
\* it is never smaller than the longest record.
Floors == LongestRecord..MaxFloor

PipeIdle ==
    /\ file = <<>>
    /\ mpc = "idle"
    /\ chunkSize = 0
    /\ chunks = <<>>
    /\ fpos = 0
    /\ wpc = <<>>
    /\ wchunk = <<>>
    /\ wbuf = <<>>
    /\ wresults = <<>>
    /\ wrecs = <<>>
    /\ werr = <<>>
    /\ wg = 0
    /\ resultsChan = <<>>
    /\ closed = FALSE
    /\ cpc = "unborn"
    /\ finalResults = EmptyTable
    /\ merged = <<>>
    /\ stations = <<>>
    /\ panicked = FALSE

\* main after os.Open and file.Stat
PipeInit ==
    /\ file \in Files(MaxFileSize)
    /\ mpc = "partition"
    /\ chunkSize = 0
    /\ chunks = <<>>
    /\ fpos = 0
    /\ wpc = <<>>
    /\ wchunk = <<>>
    /\ wbuf = <<>>
    /\ wresults = <<>>
    /\ wrecs = <<>>
    /\ werr = <<>>
    /\ wg = 0
    /\ resultsChan = <<>>
    /\ closed = FALSE
    /\ cpc = "unborn"
    /\ finalResults = EmptyTable
    /\ merged = <<>>
    /\ stations = <<>>
    /\ panicked = FALSE

\* lines 177-193: chunkSize, the chunk list, the channel, for a minimum chunk
\* size drawn from floors
PartitionOver(floors) ==
    /\ mpc = "partition" /\ ~panicked
    /\ \E numCPUs \in 1..MaxCPUs, floor \in floors :
          /\ chunkSize' = nominalChunkSize(Len(file), numCPUs, floor)
          /\ chunks' = partition(Len(file), numCPUs, floor)
    /\ wpc' = [w \in 1..Len(chunks') |-> "unborn"]
    /\ wchunk' = [w \in 1..Len(chunks') |-> NoChunk]
    /\ wbuf' = [w \in 1..Len(chunks') |-> <<>>]
    /\ wresults' = [w \in 1..Len(chunks') |-> EmptyTable]
    /\ wrecs' = [w \in 1..Len(chunks') |-> <<>>]
    /\ werr' = [w \in 1..Len(chunks') |-> FALSE]
    /\ mpc' = "spawn"
    /\ UNCHANGED <<parseVars, file, fpos, wg, resultsChan, closed, cpc, finalResults, merged,
                   stations, panicked>>

Partition == PartitionOver(Floors)

\* lines 195-202: wg.Add(1); go func(c chunk)
Spawn ==
    /\ mpc = "spawn" /\ ~panicked
    /\ \E w \in Workers :
          /\ wpc[w] = "unborn"
          /\ \A v \in 1..(w - 1) : wpc[v] # "unborn"
          /\ wpc' = [wpc EXCEPT ![w] = "seek"]
          /\ wchunk' = [wchunk EXCEPT ![w] = chunks[w]]
    /\ wg' = wg + 1
    /\ UNCHANGED <<parseVars, file, mpc, chunkSize, chunks, fpos, wbuf, wresults, wrecs, werr,
                   resultsChan, closed, cpc, finalResults, merged, stations, panicked>>

\* lines 204-207: go func() { wg.Wait(); close(resultsChan) }
SpawnCloser ==
    /\ mpc = "spawn" /\ ~panicked
    /\ \A w \in Workers : wpc[w] # "unborn"
    /\ cpc' = "wait"
    /\ mpc' = "merge"
    /\ UNCHANGED <<parseVars, file, chunkSize, chunks, wchunk, fpos, wpc, wbuf, wresults, wrecs, werr, wg,
                   resultsChan, closed, finalResults, merged, stations, panicked>>

\* line 82: file.Seek(chunk.offset, 0) on the shared handle
Seek(w) ==
    /\ wpc[w] = "seek" /\ ~panicked
    /\ fpos' = wchunk[w].offset
    /\ wpc' = [wpc EXCEPT ![w] = "read"]
    /\ UNCHANGED <<parseVars, file, mpc, chunkSize, chunks, wchunk, wbuf, wresults, wrecs, werr, wg,
                   resultsChan, closed, cpc, finalResults, merged, stations, panicked>>

\* the number of bytes one file.Read call of io.ReadFull gets for worker w
readCount(w) ==
    LET need  == wchunk[w].size - Len(wbuf[w])
        avail == Len(file) - fpos
    IN  IF need < avail THEN need ELSE avail

\* lines 83-86: one file.Read call of io.ReadFull, at the handle's offset.
\* A read of no byte is io.EOF: ReadFull returns an error and processChunk
\* returns the empty table.
Read(w) ==
    /\ wpc[w] = "read" /\ ~panicked
    /\ LET n == readCount(w)
       IN  IF n = 0
           THEN /\ werr' = [werr EXCEPT ![w] = TRUE]
                /\ wpc' = [wpc EXCEPT ![w] = "send"]
                /\ UNCHANGED <<fpos, wbuf>>
           ELSE /\ wbuf' = [wbuf EXCEPT ![w] = @ \o Slice(file, fpos, fpos + n)]
                /\ fpos' = fpos + n
                /\ wpc' = [wpc EXCEPT ![w] =
                             IF Len(wbuf'[w]) = wchunk[w].size THEN "scan" ELSE "read"]
                /\ UNCHANGED werr
    /\ UNCHANGED <<parseVars, file, mpc, chunkSize, chunks, wchunk, wresults, wrecs, wg, resultsChan,
                   closed, cpc, finalResults, merged, stations, panicked>>

\* lines 88-141: snap to line boundaries, scan, fold.  A slice or index out of
\* range panics: the goroutine unwinds and runs its deferred call.
Scan(w) ==
    /\ wpc[w] = "scan" /\ ~panicked
    /\ LET r == processChunk(wbuf[w], wchunk[w].offset)
       IN  IF r.panic
           THEN /\ wpc' = [wpc EXCEPT ![w] = "panicking"]
                /\ UNCHANGED <<wresults, wrecs>>
           ELSE /\ wresults' = [wresults EXCEPT ![w] = r.results]
                /\ wrecs' = [wrecs EXCEPT ![w] = r.recs]
                /\ wpc' = [wpc EXCEPT ![w] = "send"]
    /\ UNCHANGED <<parseVars, file, mpc, chunkSize, chunks, wchunk, fpos, wbuf, werr, wg,
                   resultsChan, closed, cpc, finalResults, merged, stations, panicked>>

\* line 200: resultsChan <- results (capacity len(chunks); a send on a closed
\* channel panics)
Send(w) ==
    /\ wpc[w] = "send" /\ ~panicked
    /\ Len(resultsChan) < Len(chunks)
    /\ IF closed
       THEN /\ wpc' = [wpc EXCEPT ![w] = "panicking"]
            /\ UNCHANGED resultsChan
       ELSE /\ resultsChan' = Append(resultsChan, [w |-> w, results |-> wresults[w]])
            /\ wpc' = [wpc EXCEPT ![w] = "deferred"]
    /\ UNCHANGED <<parseVars, file, mpc, chunkSize, chunks, wchunk, fpos, wbuf, wresults,
                   wrecs, werr, wg, closed, cpc, finalResults, merged, stations, panicked>>

\* line 198: the deferred wg.Done(), on return and on a panic alike
Done(w) ==
    /\ wpc[w] \in {"deferred", "panicking"} /\ ~panicked
    /\ wg' = wg - 1
    /\ wpc' = [wpc EXCEPT ![w] = IF wpc[w] = "deferred" THEN "done" ELSE "fatal"]
    /\ UNCHANGED <<parseVars, file, mpc, chunkSize, chunks, wchunk, fpos, wbuf, wresults,
                   wrecs, werr, resultsChan, closed, cpc, finalResults, merged, stations,
                   panicked>>

\* The panic was not recovered: once the deferred call has run, the runtime
\* ends the process.  Until then the other goroutines keep running.
Fatal(w) ==
    /\ wpc[w] = "fatal" /\ ~panicked
    /\ panicked' = TRUE
    /\ UNCHANGED <<parseVars, file, mpc, chunkSize, chunks, wchunk, fpos, wpc, wbuf,
                   wresults, wrecs, werr, wg, resultsChan, closed, cpc, finalResults,
                   merged, stations>>

\* a variant of the closer that does not wait for the counter to reach zero
CloserWaitNoBarrier ==
    /\ cpc = "wait" /\ ~panicked
    /\ cpc' = "close"
    /\ UNCHANGED <<parseVars, file, mpc, chunkSize, chunks, wchunk, fpos, wpc, wbuf, wresults, wrecs, werr,
                   wg, resultsChan, closed, finalResults, merged, stations, panicked>>

\* line 205: wg.Wait() returns
CloserWait ==
    /\ cpc = "wait" /\ ~panicked
    /\ wg = 0
    /\ cpc' = "close"
    /\ UNCHANGED <<parseVars, file, mpc, chunkSize, chunks, wchunk, fpos, wpc, wbuf, wresults, wrecs, werr,
                   wg, resultsChan, closed, finalResults, merged, stations, panicked>>

\* line 206: close(resultsChan)
CloserClose ==
    /\ cpc = "close" /\ ~panicked
    /\ closed' = TRUE
    /\ cpc' = "done"
    /\ UNCHANGED <<parseVars, file, mpc, chunkSize, chunks, wchunk, fpos, wpc, wbuf, wresults, wrecs, werr,
                   wg, resultsChan, finalResults, merged, stations, panicked>>

\* lines 210-225: one iteration of "for results := range resultsChan"
Receive ==
    /\ mpc = "merge" /\ ~panicked
    /\ resultsChan # <<>>
    /\ finalResults' = mergeTable(finalResults, Head(resultsChan).results)
    /\ merged' = Append(merged, Head(resultsChan).w)
    /\ resultsChan' = Tail(resultsChan)
    /\ UNCHANGED <<parseVars, file, mpc, chunkSize, chunks, wchunk, fpos, wpc, wbuf, wresults, wrecs, werr,
                   wg, closed, cpc, stations, panicked>>

\* line 210: the range loop ends when the channel is closed and drained
EndRange ==
    /\ mpc = "merge" /\ ~panicked
    /\ resultsChan = <<>>
    /\ closed
    /\ mpc' = "report"
    /\ UNCHANGED <<parseVars, file, chunkSize, chunks, wchunk, fpos, wpc, wbuf, wresults, wrecs, werr, wg,
                   resultsChan, closed, cpc, finalResults, merged, stations, panicked>>

\* lines 227-239: the report rows, sorted by name
Report ==
    /\ mpc = "report" /\ ~panicked
    /\ stations' = buildStations(finalResults)
    /\ mpc' = "exit"
    /\ UNCHANGED <<parseVars, file, chunkSize, chunks, wchunk, fpos, wpc, wbuf, wresults, wrecs, werr, wg,
                   resultsChan, closed, cpc, finalResults, merged, panicked>>

PipeNext ==
    \/ Partition
    \/ Spawn
    \/ SpawnCloser
    \/ \E w \in Workers : Seek(w)
    \/ \E w \in Workers : Read(w)
    \/ \E w \in Workers : Scan(w)
    \/ \E w \in Workers : Send(w)
    \/ \E w \in Workers : Done(w)
    \/ \E w \in Workers : Fatal(w)
    \/ CloserWait
    \/ CloserClose
    \/ Receive
    \/ EndRange
    \/ Report


(***************************************************************************)
(* parseTemp run one statement at a time on a well-formed token            *)
(***************************************************************************)
ParseIdle ==
    /\ s = <<>>
    /\ ppc = "idle"
    /\ neg = FALSE
    /\ val = F64Zero
    /\ decimal = FALSE
    /\ decimalPos = F64Zero
    /\ pidx = 0
    /\ pret = F64Zero

ParseInit ==
    /\ s \in WellFormedTokens(MaxDigits)
    /\ ppc = "sign"
    /\ neg = FALSE
    /\ val = F64Zero
    /\ decimal = FALSE
    /\ decimalPos = F64Zero
    /\ pidx = 0
    /\ pret = F64Zero

\* lines 48-56
ParseSign ==
    /\ ppc = "sign"
    /\ IF Len(s) = 0
       THEN /\ ppc' = "panic"
            /\ UNCHANGED <<neg, pidx>>
       ELSE /\ ppc' = "loop"
            /\ neg' = (s[1] = Minus)
            /\ pidx' = IF s[1] = Minus THEN 1 ELSE 0
    /\ val' = parseTempStart.val
    /\ decimal' = parseTempStart.decimal
    /\ decimalPos' = parseTempStart.decimalPos
    /\ UNCHANGED <<pipeVars, s, pret>>

\* lines 58-69
ParseByte ==
    /\ ppc = "loop"
    /\ pidx < Len(s)
    /\ LET st == parseTempStep([val |-> val, decimal |-> decimal,
                                decimalPos |-> decimalPos], s[pidx + 1])
       IN  /\ val' = st.val
           /\ decimal' = st.decimal
           /\ decimalPos' = st.decimalPos
    /\ pidx' = pidx + 1
    /\ UNCHANGED <<pipeVars, s, ppc, neg, pret>>

\* lines 71-74
ParseReturn ==
    /\ ppc = "loop"
    /\ pidx = Len(s)
    /\ ppc' = "done"
    /\ pret' = IF neg THEN F64Neg(val) ELSE val
    /\ UNCHANGED <<pipeVars, s, neg, val, decimal, decimalPos, pidx>>

ParseNext == ParseSign \/ ParseByte \/ ParseReturn

\* Tokens that are not of the form [-] digits [ . digits ]
TokenBytes == {Minus, Dot, Zero + 1, LetterA}

MaxTokenLen == 3

ByteSeqs(n) == UNION {[1..k -> TokenBytes] : k \in 0..n}

IsWellFormed(t) ==
    LET body == IF Len(t) > 0 /\ t[1] = Minus THEN Tail(t) ELSE t
        dots == {i \in 1..Len(body) : body[i] = Dot}
    IN  /\ \A i \in 1..Len(body) : body[i] \in Digits \cup {Dot}
        /\ Cardinality(dots) <= 1
        /\ Len(body) >= 1
        /\ \A i \in dots : 1 < i /\ i < Len(body)

MalformedTokens(n) == {t \in ByteSeqs(n) : ~IsWellFormed(t)}

ParseMalformedInit ==
    /\ s \in MalformedTokens(MaxTokenLen)
    /\ ppc = "sign"
    /\ neg = FALSE
    /\ val = F64Zero
    /\ decimal = FALSE
    /\ decimalPos = F64Zero
    /\ pidx = 0
    /\ pret = F64Zero


\* helpers of the claims about parseTemp
TokNeg(t) == Len(t) > 0 /\ t[1] = Minus

TokBody(t) == IF TokNeg(t) THEN Tail(t) ELSE t

TokDotAt(t) == {i \in 1..Len(TokBody(t)) : TokBody(t)[i] = Dot}

TokFracLen(t) == IF TokDotAt(t) = {} THEN 0 ELSE Len(TokBody(t)) - MinOf(TokDotAt(t))

RECURSIVE DigitsValue(_)
DigitsValue(d) ==
    IF Len(d) = 0 THEN 0
    ELSE IF d[Len(d)] = Dot THEN DigitsValue(SubSeq(d, 1, Len(d) - 1))
    ELSE DigitsValue(SubSeq(d, 1, Len(d) - 1)) * 10 + (d[Len(d)] - Zero)

\* the token's value in units of 10^(-TokFracLen): "12.25" is 1225
TokScaled(t) == DigitsValue(TokBody(t))

\* C10: for every well-formed token, parseTemp returns the decimal value the
\* token represents: the value returned, taken to as many decimals as the token
\* has, shows the token's digits, with the token's sign.
C10_ParseReturnsDecimalValue ==
    ppc = "done" =>
        /\ FormatFixed(pret, TokFracLen(s)) = TokScaled(s)
        /\ pret.neg = TokNeg(s)

\* the same for tokens with at most one fractional digit
C10_OneFractionDigitOk ==
    (ppc = "done" /\ TokFracLen(s) <= 1) =>
        /\ FormatFixed(pret, TokFracLen(s)) = TokScaled(s)
        /\ pret.neg = TokNeg(s)

\* the step-wise run returns what the function returns
ParseStepsAgree == ppc = "done" => pret = parseTemp(s).val

(***************************************************************************)
(* The merge of Local Tables folded from record-aligned pieces of a file:  *)
(* every worker has returned from processChunk and is about to send.       *)
(***************************************************************************)
MergeRecords ==
    { <<LetterA, Semicolon, Zero, Dot, Zero + 1, Newline>>,                \* a;0.1
      <<LetterA, Semicolon, Zero, Dot, Zero + 2, Newline>>,                \* a;0.2
      <<LetterA, Semicolon, Zero, Dot, Zero + 3, Newline>>,                \* a;0.3
      <<LetterA + 1, Semicolon, Minus, Zero + 1, Dot, Zero, Newline>> }    \* b;-1.0

MaxObs == 3

RECURSIVE ObsFiles(_)
ObsFiles(n) ==
    IF n = 0 THEN {<<>>}
    ELSE ObsFiles(n - 1) \cup {f \o r : f \in ObsFiles(n - 1), r \in MergeRecords}

\* the positions (from 0) where a record of f starts
RecordStarts(f) ==
    IF Len(f) = 0 THEN {}
    ELSE {0} \cup {p \in 1..(Len(f) - 1) : f[p] = Newline}

RECURSIVE sortedInts(_)
sortedInts(S) == IF S = {} THEN <<>> ELSE <<MinOf(S)>> \o sortedInts(S \ {MinOf(S)})

\* the chunks that cut f at the record starts in cuts
alignedChunks(f, cuts) ==
    LET b == sortedInts(cuts)
    IN  [i \in 1..Len(b) |->
            [offset |-> b[i],
             size   |-> (IF i < Len(b) THEN b[i + 1] ELSE Len(f)) - b[i]]]

chunkBytes(f, c) == Slice(f, c.offset, c.offset + c.size)

MergeInit ==
    /\ file \in ObsFiles(MaxObs)
    /\ \E cuts \in SUBSET RecordStarts(file) :
          /\ Len(file) > 0 => 0 \in cuts
          /\ chunks = alignedChunks(file, cuts)
    /\ mpc = "merge"
    /\ chunkSize = 0
    /\ fpos = Len(file)
    /\ wpc = [w \in Workers |-> "send"]
    /\ wchunk = chunks
    /\ wbuf = [w \in Workers |-> chunkBytes(file, chunks[w])]
    /\ wresults = [w \in Workers |-> scanLines(wbuf[w], 0, EmptyTable, <<>>).results]
    /\ wrecs = [w \in Workers |-> scanLines(wbuf[w], 0, EmptyTable, <<>>).recs]
    /\ werr = [w \in Workers |-> FALSE]
    /\ wg = Len(chunks)
    /\ resultsChan = <<>>
    /\ closed = FALSE
    /\ cpc = "wait"
    /\ finalResults = EmptyTable
    /\ merged = <<>>
    /\ stations = <<>>
    /\ panicked = FALSE

MergeNext ==
    \/ \E w \in Workers : Send(w)
    \/ \E w \in Workers : Done(w)
    \/ CloserWait
    \/ CloserClose
    \/ Receive
    \/ EndRange
    \/ Report

(***************************************************************************)
(* Files at the edges of the input format: empty lines, lines without a    *)
(* separator, lines with an empty value, a last record without a newline   *)
(***************************************************************************)
EdgeLines ==
    { <<LetterA, Semicolon, Zero + 3, Newline>>,      \* a;3
      <<Newline>>,                                     \* an empty line
      <<LetterA, Newline>>,                            \* a line without separator
      <<LetterA, Semicolon, Newline>>,                 \* a line with an empty value
      <<LetterA, Semicolon, Zero + 1, Dot, Zero + 5, Newline>> }   \* a;1.5

EdgeTails ==
    { <<>>,
      <<LetterA + 1, Semicolon, Minus, Zero + 2>> }    \* b;-2 without a newline

MaxEdgeLines == 2

RECURSIVE EdgeBodies(_)
EdgeBodies(n) ==
    IF n = 0 THEN {<<>>}
    ELSE EdgeBodies(n - 1) \cup {f \o l : f \in EdgeBodies(n - 1), l \in EdgeLines}

\* at most n lines, then possibly an unterminated last record
EdgeFiles(n) == {f \o t : f \in EdgeBodies(n), t \in EdgeTails}

EdgeInit ==
    /\ file \in EdgeFiles(MaxEdgeLines)
    /\ mpc = "partition"
    /\ chunkSize = 0
    /\ chunks = <<>>
    /\ fpos = 0
    /\ wpc = <<>>
    /\ wchunk = <<>>
    /\ wbuf = <<>>
    /\ wresults = <<>>
    /\ wrecs = <<>>
    /\ werr = <<>>
    /\ wg = 0
    /\ resultsChan = <<>>
    /\ closed = FALSE
    /\ cpc = "unborn"
    /\ finalResults = EmptyTable
    /\ merged = <<>>
    /\ stations = <<>>
    /\ panicked = FALSE

(***************************************************************************)
(* The partitioner alone, on files of every size and every minimum chunk   *)
(* size from 1                                                             *)
(***************************************************************************)
MaxPlainFile == 40

\* a file of n bytes; the partitioner reads only its size
PlainFile(n) == [i \in 1..n |-> LetterA]

ChunksInit ==
    /\ file \in {PlainFile(n) : n \in 0..MaxPlainFile}
    /\ mpc = "partition"
    /\ chunkSize = 0
    /\ chunks = <<>>
    /\ fpos = 0
    /\ wpc = <<>>
    /\ wchunk = <<>>
    /\ wbuf = <<>>
    /\ wresults = <<>>
    /\ wrecs = <<>>
    /\ werr = <<>>
    /\ wg = 0
    /\ resultsChan = <<>>
    /\ closed = FALSE
    /\ cpc = "unborn"
    /\ finalResults = EmptyTable
    /\ merged = <<>>
    /\ stations = <<>>
    /\ panicked = FALSE

PartitionAnyFloor == PartitionOver(1..MaxFloor)

(***************************************************************************)
(* Specifications                                                          *)
(***************************************************************************)
Init == PipeInit /\ ParseIdle

Next == PipeNext

Spec == Init /\ [][Next]_vars

\* The Go scheduler runs every goroutine that stays runnable: main, the
\* closer and the workers each take their next step eventually.  For the
\* steps that only compute (the scan, the merge of a received table, the
\* report) "runnable" is written out as the step's guard.
MainControl == Partition \/ Spawn \/ SpawnCloser \/ EndRange

CloserNext == CloserWait \/ CloserClose

WorkerIO == \E w \in Workers : Seek(w) \/ Read(w) \/ Send(w) \/ Done(w) \/ Fatal(w)

ScanSome == \E w \in Workers : Scan(w)

ScanReady == ~panicked /\ \E w \in Workers : wpc[w] = "scan"

ReceiveReady == ~panicked /\ mpc = "merge" /\ resultsChan # <<>>

ReportReady == ~panicked /\ mpc = "report"

Fairness ==
    /\ WF_vars(MainControl)
    /\ WF_vars(CloserNext)
    /\ WF_vars(WorkerIO)
    /\ ([]<>~ScanReady) \/ ([]<><<ScanSome>>_vars)
    /\ ([]<>~ReceiveReady) \/ ([]<><<Receive>>_vars)
    /\ ([]<>~ReportReady) \/ ([]<><<Report>>_vars)

SpecFair == Spec /\ Fairness

InitParse == ParseInit /\ PipeIdle

SpecParse == InitParse /\ [][ParseNext]_vars

InitMerge == MergeInit /\ ParseIdle

SpecMerge == InitMerge /\ [][MergeNext]_vars

InitParseMalformed == ParseMalformedInit /\ PipeIdle

SpecParseMalformed == InitParseMalformed /\ [][ParseNext]_vars

InitChunks == ChunksInit /\ ParseIdle

SpecChunks == InitChunks /\ [][PartitionAnyFloor]_vars

InitEdge == EdgeInit /\ ParseIdle

SpecEdge == InitEdge /\ [][Next]_vars

(***************************************************************************)
(* Claims                                                                  *)
(***************************************************************************)
exactBuf(w) == chunkBytes(file, chunks[w])

Returned(w) == wpc[w] \in {"send", "deferred", "done"}

AllReturned == mpc # "partition" /\ \A w \in Workers : Returned(w)

AllExact == \A w \in Workers : ~werr[w] /\ wbuf[w] = exactBuf(w)

\* how many times the record starting at file position p was folded
FoldedAt(p) ==
    Cardinality({<<w, i>> \in Workers \X (0..Len(file)) :
                    i \in 1..Len(wrecs[w]) /\ chunks[w].offset + wrecs[w][i] = p})

\* C1: when every scanner's buffer holds exactly the bytes of its nominal
\* range, every record of the file is folded exactly once across all
\* processChunk invocations.
C1_EveryRecordFoldedOnce ==
    (AllReturned /\ AllExact) => \A p \in RecordStarts(file) : FoldedAt(p) = 1

\* C2: under every interleaving, the buffer a processChunk invocation reads
\* holds exactly the file bytes of its own chunk, and its read does not fail.
C2_BufferIsOwnChunk ==
    mpc # "partition" =>
        \A w \in Workers :
            /\ ~werr[w]
            /\ wpc[w] \in {"scan", "send", "deferred", "done"} => wbuf[w] = exactBuf(w)

\* the Global Table of a single chunk covering the whole file
singleChunkTable(f) == processChunk(f, 0).results

\* C3: the Global Table main builds equals the aggregates of all observations
\* of the file, the table of worker count 1 (a single chunk).
C3_GlobalTableIsWholeFileFold ==
    mpc \in {"report", "exit"} => finalResults = singleChunkTable(file)

\* C4: folding record-aligned pieces into Local Tables and merging them gives
\* the table of folding the whole sequence.
C4_SplitFoldMergeIsWholeFold ==
    mpc \in {"report", "exit"} =>
        finalResults = scanLines(file, 0, EmptyTable, <<>>).results

RECURSIVE mergeInOrder(_, _)
mergeInOrder(tables, n) ==
    IF n = 0 THEN EmptyTable ELSE mergeTable(mergeInOrder(tables, n - 1), tables[n])

\* C5: for a fixed set of Local Tables the Global Table after the drain is the
\* same for every arrival order: it is the one of arrival in chunk order.
C5_ArrivalOrderIrrelevant ==
    mpc \in {"report", "exit"} =>
        finalResults = mergeInOrder(wresults, Len(wresults))

\* C6: a failed or short read is surfaced as an error outcome: what
\* processChunk returns for it is not the empty Local Table of a chunk without
\* records.
C6_ReadErrorSurfaced ==
    mpc # "partition" =>
        \A w \in Workers : (werr[w] /\ Returned(w)) => wresults[w] # EmptyTable

\* C7: if the read of any chunk fails, main never reaches the report step.
C7_ReadErrorAbortsRun ==
    mpc \in {"report", "exit"} => \A w \in Workers : ~werr[w]

Count(sq, w) == Cardinality({i \in 1..Len(sq) : sq[i] = w})

InChan(w) == Cardinality({i \in 1..Len(resultsChan) : resultsChan[i].w = w})

\* the workers started on chunk i
ScannersOf(i) == {w \in Workers : wpc[w] # "unborn" /\ wchunk[w] = chunks[i]}

\* C8: main leaves the merge loop only after every worker has completed and
\* its Local Table has been received and merged exactly once; every chunk is
\* scanned by exactly one worker; at no time is a table merged twice, or
\* present before its worker produced it.
C8_JoinBarrier ==
    /\ mpc \in {"report", "exit"} =>
          /\ resultsChan = <<>>
          /\ Len(merged) = Len(chunks)
          /\ \A w \in Workers : wpc[w] = "done" /\ Count(merged, w) = 1
          /\ \A i \in Workers : Cardinality(ScannersOf(i)) = 1
    /\ mpc # "partition" =>
          \A w \in Workers :
              /\ Cardinality(ScannersOf(w)) <= 1
              /\ Count(merged, w) + InChan(w) <= 1
              /\ Count(merged, w) + InChan(w) = 1 <=> wpc[w] \in {"deferred", "done"}
    /\ \A i \in 1..Len(merged) : merged[i] \in Workers

\* the report of the run in which the workers run one after the other in chunk order
sequentialStations ==
    buildStations(mergeInOrder([w \in Workers |->
                                   processChunk(exactBuf(w), chunks[w].offset).results],
                               Len(chunks)))

\* C9: for a fixed file and worker count every complete run reports the same
\* aggregates, those of the run without interleaving.
C9_Deterministic ==
    mpc = "exit" => stations = sequentialStations


\* the one-decimal text of the value t tenths: "-3.2" for -32, "0.0" for 0
OneDecimalText(t) ==
    LET a == IF t < 0 THEN -t ELSE t
    IN  (IF t < 0 THEN <<Minus>> ELSE <<>>) \o DecDigits(a \div 10) \o <<Dot, Zero + (a % 10)>>

\* the text of the whole number n without a fractional part: "100", "-7"
WholeText(n) ==
    (IF n < 0 THEN <<Minus>> ELSE <<>>) \o DecDigits(IF n < 0 THEN -n ELSE n)

\* the whole number the digits of token t spell, with the token's sign
TokSigned(t) == IF TokNeg(t) THEN -TokScaled(t) ELSE TokScaled(t)

\* C11: parsing the one-decimal text of a value that is a whole number of
\* tenths and formatting the result with one decimal gives the same text; for
\* the text of a whole number without a fraction it gives that number with ".0".
C11_RoundTripOneDecimal ==
    ppc = "done" =>
        /\ s = OneDecimalText(TokSigned(s)) => formatTenths(pret) = s
        /\ s = WholeText(TokSigned(s)) => formatTenths(pret) = s \o <<Dot, Zero>>

C11_Witness ==
    /\ ppc = "done"
    /\ s = OneDecimalText(-32)
    /\ formatTenths(pret) = <<Minus, Zero + 3, Dot, Zero + 2>>


\* a worker whose goroutine ended in a panic
Panicked(w) == wpc[w] \in {"panicking", "fatal"}

\* C12: an empty file, or a file holding a single newline byte, is processed
\* without error or crash and its Global Table has no entries.
C12_ZeroKeysNoError ==
    file \in {<<>>, <<Newline>>} =>
        /\ ~panicked
        /\ mpc # "partition" => \A w \in Workers : ~Panicked(w) /\ ~werr[w]
        /\ mpc \in {"report", "exit"} => finalResults = EmptyTable


\* the key and the parsed value of the first record of file f
FirstKey(f) == Slice(f, 0, FirstAt(f, 0, Semicolon))

FirstValue(f) ==
    parseTemp(Slice(f, FirstAt(f, 0, Semicolon) + 1, FirstAt(f, 0, Newline))).val

\* C13: a file of exactly one newline-terminated record gives a Global Table
\* with exactly one key, whose count is 1 and whose min, max and sum/count
\* are the parsed value; the report has that one row.
C13_SingleRecord ==
    Cardinality(RecordStarts(file)) = 1 =>
        /\ mpc \in {"report", "exit"} =>
              /\ DOMAIN finalResults = {FirstKey(file)}
              /\ finalResults[FirstKey(file)].count = 1
              /\ finalResults[FirstKey(file)].min = FirstValue(file)
              /\ finalResults[FirstKey(file)].max = FirstValue(file)
              /\ F64DivSmall(finalResults[FirstKey(file)].sum,
                             finalResults[FirstKey(file)].count) = FirstValue(file)
        /\ mpc = "exit" =>
              stations = <<[Name |-> FirstKey(file), Min |-> FirstValue(file),
                            Max |-> FirstValue(file), Mean |-> FirstValue(file)]>>

C13_Witness ==
    /\ mpc = "exit"
    /\ file = <<LetterA + 1, Semicolon, Minus, Zero + 2, Newline>>
    /\ Len(stations) = 1
    /\ stations[1].Name = <<LetterA + 1>>
    /\ stations[1].Min = F64Neg(F64FromInt(2))


\* worker w has read its whole buffer and run the scan of processChunk on it
Scanned(w) == wpc[w] \notin {"unborn", "seek", "read", "scan"} /\ ~werr[w]

\* what that scan did
ScanOf(w) == processChunk(wbuf[w], wchunk[w].offset)

\* C14: the scanner's separator search is bounded by the line terminator and
\* the end of the buffer: it never reads an index at or past len(buf), and no
\* key holds a newline (bytes of a following line).
C14_SeparatorSearchBounded ==
    mpc # "partition" =>
        \A w \in Workers :
            Scanned(w) =>
                /\ ScanOf(w).fault # "index"
                /\ \A k \in DOMAIN ScanOf(w).results : \A i \in 1..Len(k) : k[i] # Newline


\* C15: for a malformed value token parseTemp neither returns a number
\* computed from the bytes nor fails by indexing an empty slice.
C15_MalformedTokenRejected ==
    ~IsWellFormed(s) => ppc \notin {"done", "panic"}


\* the sum of the sizes of the first n chunks
RECURSIVE SizesSum(_, _)
SizesSum(cs, n) == IF n = 0 THEN 0 ELSE SizesSum(cs, n - 1) + cs[n].size

\* max(F / C, m) over the worker counts and minimum chunk sizes
NominalSizes(F) ==
    {IF F \div C >= m THEN F \div C ELSE m : C \in 1..MaxCPUs, m \in 1..MaxFloor}

\* C16: the chunk list has nominal size max(F / C, m); the first chunk starts
\* at 0, each next chunk starts where the previous one ends, every size is
\* between 1 and the nominal size, only the last chunk may be shorter, and
\* the sizes sum to F.
C16_ChunkListInvariants ==
    mpc # "partition" =>
        /\ chunkSize \in NominalSizes(Len(file))
        /\ Len(chunks) > 0 => chunks[1].offset = 0
        /\ \A i \in 2..Len(chunks) :
              chunks[i].offset = chunks[i - 1].offset + chunks[i - 1].size
        /\ \A i \in 1..Len(chunks) : 1 <= chunks[i].size /\ chunks[i].size <= chunkSize
        /\ \A i \in 1..(Len(chunks) - 1) : chunks[i].size = chunkSize
        /\ SizesSum(chunks, Len(chunks)) = Len(file)

C16_Witness ==
    /\ mpc = "spawn"
    /\ Len(chunks) = 4
    /\ chunks[4].size < chunkSize
    /\ chunks[4].offset + chunks[4].size = Len(file)


\* The observation folded from position p of buffer b: its key and its value
ObsKey(b, p) == Slice(b, p, FirstAt(b, p, Semicolon))

ObsVal(b, p) ==
    parseTemp(Slice(b, FirstAt(b, p, Semicolon) + 1,
                    FirstAt(b, FirstAt(b, p, Semicolon) + 1, Newline))).val

\* the indices in 1..n that satisfy Keep, in increasing order
SelectIdx(n, Keep(_)) == sortedInts({i \in 1..n : Keep(i)})

\* the values of key k that worker w folded, in scan order
LocalObs(w, k) ==
    LET keep(i) == ObsKey(wbuf[w], wrecs[w][i]) = k
        idx     == SelectIdx(Len(wrecs[w]), keep)
    IN  [j \in 1..Len(idx) |-> ObsVal(wbuf[w], wrecs[w][idx[j]])]

\* the workers merged so far whose Local Table has key k, in arrival order
MergedWith(k) ==
    LET keep(i) == k \in DOMAIN wresults[merged[i]]
        idx     == SelectIdx(Len(merged), keep)
    IN  [j \in 1..Len(idx) |-> merged[idx[j]]]

\* float64 sum of a non-empty sequence, left to right
RECURSIVE SumInOrder(_, _)
SumInOrder(v, n) == IF n = 1 THEN v[1] ELSE F64Add(SumInOrder(v, n - 1), v[n])

RECURSIVE CountSum(_, _)
CountSum(c, n) == IF n = 0 THEN 0 ELSE CountSum(c, n - 1) + c[n]

IsLeast(x, v) == (\E i \in 1..Len(v) : v[i] = x) /\ \A i \in 1..Len(v) : ~F64Lt(v[i], x)

IsGreatest(x, v) == (\E i \in 1..Len(v) : v[i] = x) /\ \A i \in 1..Len(v) : ~F64Lt(x, v[i])

\* aggregate r summarises the non-empty sequence v of values
Summarises(r, v) ==
    /\ r.count = Len(v) /\ r.count >= 1
    /\ r.sum = SumInOrder(v, Len(v))
    /\ IsLeast(r.min, v) /\ IsGreatest(r.max, v)
    /\ ~F64Lt(r.max, r.min)

\* C17: every aggregate of every Local Table and of the Global Table has
\* min <= max and count >= 1; a Local aggregate's count is the number of
\* observations of its key the scanner folded and its sum is their float64 sum
\* in scan order; a Global aggregate's count and sum are those of the Local
\* aggregates merged so far, in arrival order; every key folded or merged is
\* still in its table.
C17_AggregateInvariants ==
    /\ \A w \in 1..Len(wresults) :
          /\ DOMAIN wresults[w] = {ObsKey(wbuf[w], wrecs[w][i]) : i \in 1..Len(wrecs[w])}
          /\ \A k \in DOMAIN wresults[w] : Summarises(wresults[w][k], LocalObs(w, k))
    /\ DOMAIN finalResults = UNION {DOMAIN wresults[merged[i]] : i \in 1..Len(merged)}
    /\ \A k \in DOMAIN finalResults :
          LET ws == MergedWith(k)
              r  == finalResults[k]
          IN  /\ r.count = CountSum([j \in 1..Len(ws) |-> wresults[ws[j]][k].count], Len(ws))
              /\ r.count >= 1
              /\ r.sum = SumInOrder([j \in 1..Len(ws) |-> wresults[ws[j]][k].sum], Len(ws))
              /\ IsLeast(r.min, [j \in 1..Len(ws) |-> wresults[ws[j]][k].min])
              /\ IsGreatest(r.max, [j \in 1..Len(ws) |-> wresults[ws[j]][k].max])
              /\ ~F64Lt(r.max, r.min)

\* a Global aggregate merged from two Local Tables, with min < max
C17_Witness ==
    /\ Len(merged) >= 2
    /\ \E k \in DOMAIN finalResults :
          /\ Len(MergedWith(k)) >= 2
          /\ finalResults[k].count >= 2
          /\ F64Lt(finalResults[k].min, finalResults[k].max)


\* worker w's buffer is full: processChunk is at, or past, the boundary snapping
BufferRead(w) == wpc[w] \notin {"unborn", "seek", "read"} /\ ~werr[w]

\* C18: for every chunk the snapped indices satisfy 0 <= start <= end <=
\* len(buf), so the reslice buf[start:end] never fails.
C18_SnapIndicesValid ==
    mpc # "partition" =>
        \A w \in Workers :
            BufferRead(w) =>
                /\ 0 <= snapStart(wbuf[w], wchunk[w].offset)
                /\ snapStart(wbuf[w], wchunk[w].offset) <= snapEnd(wbuf[w])
                /\ snapEnd(wbuf[w]) <= Len(wbuf[w])


\* a worker at, or before, its send
BeforeSend(w) == wpc[w] \in {"unborn", "seek", "read", "scan", "send"}

\* no worker is blocked on its send; the channel is closed by the closer only
\* (once), and then no worker has a send ahead of it
ChannelProtocol ==
    mpc # "partition" =>
        /\ \A w \in Workers : wpc[w] = "send" => Len(resultsChan) < Len(chunks) /\ ~closed
        /\ closed <=> cpc = "done"
        /\ closed => \A w \in Workers : ~BeforeSend(w)
        /\ Len(resultsChan) <= Len(chunks)

\* some processChunk did not return (it panicked)
SomeScanPanicked == mpc # "partition" /\ \E w \in Workers : Panicked(w)

\* C19: no worker ever blocks on its send, the channel is closed once and
\* only after every send has completed, and under fair scheduling main
\* reaches the report step unless some processChunk does not return.
C19_ChannelProtocolAndTermination ==
    /\ []ChannelProtocol
    /\ <>(mpc \in {"report", "exit"} \/ SomeScanPanicked)

\* main reports after merging three tables; and main reports a file of no chunk
C19_Witness ==
    /\ mpc = "exit"
    /\ Len(merged) = 3
    /\ closed
    /\ \A w \in Workers : wpc[w] = "done"


\* the number of bytes of b up to and including its last newline
UpToLastNewline(b) ==
    IF \A i \in 1..Len(b) : b[i] # Newline THEN 0
    ELSE CHOOSE n \in 1..Len(b) : b[n] = Newline /\ \A i \in (n + 1)..Len(b) : b[i] # Newline

\* b without the bytes after its last newline
Terminated(b) == Slice(b, 0, UpToLastNewline(b))

\* what the scan of chunk c does in the run on the file without its
\* unterminated last record; a chunk that starts in that record does not exist
\* in that run
OriginalScan(c) ==
    LET orig == Terminated(file)
        hi   == IF c.offset + c.size < Len(orig) THEN c.offset + c.size ELSE Len(orig)
    IN  IF c.offset >= Len(orig)
        THEN [panic |-> FALSE, results |-> EmptyTable]
        ELSE [panic   |-> processChunk(Slice(orig, c.offset, hi), c.offset).panic,
              results |-> processChunk(Slice(orig, c.offset, hi), c.offset).results]

RECURSIVE MergeArrived(_)
MergeArrived(n) ==
    IF n = 0 THEN EmptyTable
    ELSE mergeTable(MergeArrived(n - 1), OriginalScan(chunks[merged[n]]).results)

\* processChunk folds only bytes up to the last newline of its buffer: every
\* folded record ends at or before it and the Local Table is that of the buffer
\* cut after its last newline
FoldsUpToLastNewline ==
    mpc # "partition" =>
        \A w \in Workers :
            (Scanned(w) /\ ~Panicked(w)) =>
                /\ \A i \in 1..Len(wrecs[w]) :
                      FirstAt(wbuf[w], wrecs[w][i], Newline) < UpToLastNewline(wbuf[w])
                /\ wresults[w] = processChunk(Terminated(wbuf[w]), wchunk[w].offset).results

\* C20: processChunk folds only bytes up to the last newline of its buffer, so
\* the run on a file with an unterminated last record, each worker reading its
\* own chunk, goes as the run on the file without that record: a scan fails
\* only if it fails there, and the Global Table reported is the same.
C20_TailNeverFolded ==
    /\ FoldsUpToLastNewline
    /\ mpc # "partition" =>
          /\ \A w \in Workers :
                (BufferRead(w) /\ wbuf[w] = exactBuf(w) /\ Panicked(w)) =>
                    OriginalScan(chunks[w]).panic
          /\ (mpc \in {"report", "exit"} /\ AllExact) =>
                finalResults = MergeArrived(Len(merged))

=============================================================================
